---- MODULE Spec2Model ----
(***************************************************************************)
(* Model of the structural element engine of MAST                           *)
(* (src/src/elasticity/structural_element_base.cpp) and of the solver-      *)
(* facing assembly driver (src/src/base/nonlinear_implicit_assembly.h).     *)
(*                                                                          *)
(* Conventions                                                              *)
(*  - vectors are functions over 0..N-1 and matrices functions of two       *)
(*    0-based indices, as in the source; reals are modelled by integers     *)
(*    (exact arithmetic), so rotations are the integer rotation matrices.   *)
(*  - a sized Eigen vector or matrix starts with every entry 0: every       *)
(*    routine of the source accumulates into freshly sized buffers          *)
(*    (local_f += ...) and fills only the non-zero blocks of mat.           *)
(*  - libmesh_error() is fatal in every build; libmesh_assert(c) is fatal   *)
(*    only in builds that keep assertions (asserts_enabled), and is         *)
(*    compiled out otherwise.                                               *)
(*  - a fatal error is recorded in the err field of the call's result;      *)
(*    what the call had written before the error stays written.             *)
(***************************************************************************)
EXTENDS Integers, Sequences, FiniteSets, TLC

VARIABLES
    asserts_enabled,   \* build keeps libmesh_assert / eigen_assert (no NDEBUG)
    follower_forces,   \* StructuralElementBase::follower_forces
    elem,              \* the element: NoElem, or dim / local frame / kind / T / n
    sol, vel, accel, base_sol,                          \* ElementBase global copies
    local_sol, local_vel, local_accel, local_base_sol,  \* cached local copies
    last,              \* outcome of the last constructor / setter call
    tf,                \* outcome of the last frame transformation call
    bc,                \* the id -> boundary condition multimap, in map order
    res,               \* outcome of the last residual call
    attached,          \* assembly driver: discipline and system attached
    post_assembly,     \* assembly driver: _post_assembly (NoHook = NULL)
    pc,                \* assembly driver: position inside residual_and_jacobian
    X,                 \* global solution handed to the running / last call
    todo,              \* (element, DOF) scatter-adds the running call still owes
    R, J,              \* global residual / Jacobian of the call (<<>>: withheld)
    hook_log,          \* hook invocations of the running / last call
    registered,        \* hooks given to set_post_assembly_operation since the last clear
    analytic,          \* parameters whose residual derivative the elements provide
    sens               \* per parameter, outcome of the last sensitivity_assemble call

elem_vars  == <<elem, sol, vel, accel, base_sol,
                local_sol, local_vel, local_accel, local_base_sol, last>>
disp_vars  == <<bc, res>>
sens_vars  == <<analytic, sens>>
asm_vars   == <<attached, post_assembly, pc, X, todo, R, J, hook_log, registered,
                analytic, sens>>
build_vars == <<asserts_enabled, follower_forces>>
vars == <<asserts_enabled, follower_forces, elem, sol, vel, accel, base_sol,
          local_sol, local_vel, local_accel, local_base_sol, last, tf, bc, res,
          attached, post_assembly, pc, X, todo, R, J, hook_log, registered,
          analytic, sens>>

----------------------------------------------------------------------------
(* Bounds of the model *)

\* largest number of nodes (shape functions) of an element beyond its simplex
MaxExtraNodes == 0
\* number of quadrature points of an element or side rule
MaxQP == 2
\* largest number of entries of the boundary-condition multimap
MaxBC == 2
\* number of elements of the mesh the driver loops over
MaxElems == 2
\* largest number of hook registrations between two detaches
MaxRegistrations == 2
\* number of parameters of the sensitivity analysis
MaxParams == 3

----------------------------------------------------------------------------
(* Dense linear algebra on 0-based vectors and matrices *)

RECURSIVE SumUpTo(_, _)
\* f[0] + ... + f[k-1]
SumUpTo(f, k) == IF k = 0 THEN 0 ELSE f[k - 1] + SumUpTo(f, k - 1)

Zero(N) == [i \in 0..(N - 1) |-> 0]

ZeroMat(N) == [r \in 0..(N - 1) |-> [c \in 0..(N - 1) |-> 0]]

Size(v) == Cardinality(DOMAIN v)

VecAdd(a, b) == [i \in DOMAIN a |-> a[i] + b[i]]

Scale(k, a) == [i \in DOMAIN a |-> k * a[i]]

RECURSIVE Dot(_, _, _)
\* a[0]*b[0] + ... + a[k-1]*b[k-1]
Dot(a, b, k) == IF k = 0 THEN 0 ELSE a[k - 1] * b[k - 1] + Dot(a, b, k - 1)

\* v itself, with its entries computed once and not again at every use
Evaluated(v) == IF v = <<>> THEN v ELSE v

\* M * v for an N x N matrix
MatVec(M, v, N) == Evaluated([r \in 0..(N - 1) |-> Dot(M[r], v, N)])

Transpose(M, N) == [r \in 0..(N - 1) |-> [c \in 0..(N - 1) |-> M[c][r]]]

MatMul(A, B, N) ==
    LET Bt == Transpose(B, N)
    IN Evaluated([r \in 0..(N - 1) |->
          Evaluated([c \in 0..(N - 1) |-> Dot(A[r], Bt[c], N)])])

Identity3 == [j \in 0..2 |-> [k \in 0..2 |-> IF j = k THEN 1 ELSE 0]]

IsOrthonormal(T) == MatMul(T, Transpose(T, 3), 3) = Identity3

----------------------------------------------------------------------------
(* Local frame: LocalElemBase::T_matrix() *)

\* rotation by 90 degrees about z
Rz90 == <<<<0, -1, 0>>, <<1, 0, 0>>, <<0, 0, 1>>>>
\* rotation by 90 degrees about y
Ry90 == <<<<0, 0, 1>>, <<0, 1, 0>>, <<-1, 0, 0>>>>
\* cyclic permutation of the axes
Cyc == <<<<0, 0, 1>>, <<1, 0, 0>>, <<0, 1, 0>>>>
\* rotation by 180 degrees about x
Rx180 == <<<<1, 0, 0>>, <<0, -1, 0>>, <<0, 0, -1>>>>

\* a 1-based tuple of rows as a 0-based 3 x 3 matrix
Mat3(rows) == [j \in 0..2 |-> [k \in 0..2 |-> rows[j + 1][k + 1]]]

\* the rotations the frame transformations are tried on
Rotations == {Mat3(Rz90), Mat3(Ry90), Mat3(Cyc), Mat3(Rx180)}

\* the rotations the local frame of a constructed 1D / 2D element is drawn
\* from; a 3D local frame coincides with the global frame
T_matrix(dim) ==
    IF dim = 3 THEN {Identity3} ELSE {Mat3(Rz90), Mat3(Cyc)}

\* numbers of shape functions of the elements of a dimension
\* (EDGE2 / TRI3 / TET4, and the elements with up to MaxExtraNodes more nodes)
n_shape_functions(dim) == (dim + 1)..(dim + 1 + MaxExtraNodes)

----------------------------------------------------------------------------
(* Frame transformations, lines 706-785 *)

\* an assertion failure that ends the call: libmesh_assert(cond)
AssertFails(cond) == asserts_enabled /\ ~cond

BlockDropRot(T, n) ==
    [r \in 0..(6 * n - 1) |-> [c \in 0..(6 * n - 1) |->
        IF (r % n) = (c % n) /\ (r \div n) < 3 /\ (c \div n) < 3
        THEN T[r \div n][c \div n]
        ELSE 0]]

\* the 6n x 6n matrix "mat" the three routines fill from Tmat:
\* mat(j*n+i, k*n+i) = mat((j+3)*n+i, (k+3)*n+i) = Tmat(j,k), 0 elsewhere
BlockT(T, n) ==
    [r \in 0..(6 * n - 1) |-> [c \in 0..(6 * n - 1) |->
        IF (r % n) = (c % n) /\ ((r \div n) \div 3) = ((c \div n) \div 3)
        THEN T[(r \div n) % 3][(c \div n) % 3]
        ELSE 0]]

\* local_vec = mat.transpose() * global_vec
transform_vector_to_local_system(e, global_vec) ==
    MatVec(Transpose(BlockT(e.T, e.n), 6 * e.n), global_vec, 6 * e.n)

ToGlobalTransposed(e, local_vec) ==
    MatVec(Transpose(BlockT(e.T, e.n), 6 * e.n), local_vec, 6 * e.n)

\* global_vec = mat * local_vec
transform_vector_to_global_system(e, local_vec) ==
    MatVec(BlockT(e.T, e.n), local_vec, 6 * e.n)

\* global_mat = mat * local_mat * mat.transpose()
transform_matrix_to_global_system(e, local_mat) ==
    MatMul(MatMul(BlockT(e.T, e.n), local_mat, 6 * e.n),
           Transpose(BlockT(e.T, e.n), 6 * e.n), 6 * e.n)

----------------------------------------------------------------------------
(* Construction, lines 19-53 and 791-817 *)

NoElem == [built |-> FALSE]

\* libMesh::Elem::dim() of the mesh elements handed in (0 is a NodeElem)
ElemDims == 0..3

PropertyCards ==
    {"ElementPropertyCard1D", "ElementPropertyCard2D", "ElementPropertyCard3D"}

LocalElemKindNoDefault(dim) ==
    CASE dim = 1 -> "Local1DElem"
      [] dim = 2 -> "Local2DElem"
      [] OTHER   -> "Local3DElem"

\* switch (elem.dim()) of the constructor
LocalElemKind(dim) ==
    CASE dim = 1 -> "Local1DElem"
      [] dim = 2 -> "Local2DElem"
      [] dim = 3 -> "Local3DElem"
      [] OTHER   -> "libmesh_error"

\* switch (elem.dim()) of build_structural_element
StructuralElementKind(dim) ==
    CASE dim = 1 -> "StructuralElement1D"
      [] dim = 2 -> "StructuralElement2D"
      [] dim = 3 -> "StructuralElement3D"
      [] OTHER   -> "libmesh_error"

\* the constructor: the switch, with the dynamic_cast of the property card to
\* ElementPropertyCard1D& (std::bad_cast on any other card) in case 1
StructuralElementBase(dim, card, T, n, kind) ==
    IF LocalElemKind(dim) = "libmesh_error"
    THEN [err |-> TRUE, elem |-> NoElem]
    ELSE IF dim = 1 /\ card # "ElementPropertyCard1D"
    THEN [err |-> TRUE, elem |-> NoElem]
    ELSE [err |-> FALSE,
          elem |-> [built |-> TRUE, dim |-> dim, local_elem |-> LocalElemKind(dim),
                    kind |-> kind, T |-> T, n |-> n]]

build_structural_element(dim, card, T, n) ==
    IF StructuralElementKind(dim) = "libmesh_error"
    THEN [err |-> TRUE, elem |-> NoElem]
    ELSE StructuralElementBase(dim, card, T, n, StructuralElementKind(dim))

\* an Eigen vector that was never sized
Unsized == <<>>

Construct ==
    /\ ~elem.built
    /\ \E dim \in ElemDims, card \in PropertyCards :
       \E T \in T_matrix(dim), n \in n_shape_functions(dim) :
          LET r == StructuralElementBase(dim, card, T, n, "StructuralElementBase")
          IN /\ elem' = r.elem
             /\ last' = [op |-> "StructuralElementBase", dim |-> dim,
                         card |-> card, err |-> r.err]
    /\ UNCHANGED <<sol, vel, accel, base_sol,
                   local_sol, local_vel, local_accel, local_base_sol>>
    /\ UNCHANGED <<build_vars, tf, disp_vars, asm_vars>>

Build ==
    /\ ~elem.built
    /\ \E dim \in ElemDims, card \in PropertyCards :
       \E T \in T_matrix(dim), n \in n_shape_functions(dim) :
          LET r == build_structural_element(dim, card, T, n)
          IN /\ elem' = r.elem
             /\ last' = [op |-> "build_structural_element", dim |-> dim,
                         card |-> card, err |-> r.err]
    /\ UNCHANGED <<sol, vel, accel, base_sol,
                   local_sol, local_vel, local_accel, local_base_sol>>
    /\ UNCHANGED <<build_vars, tf, disp_vars, asm_vars>>

\* ~StructuralElementBase: the element and its vectors go away
Destroy ==
    /\ elem.built
    /\ elem' = NoElem
    /\ sol' = Unsized /\ vel' = Unsized /\ accel' = Unsized /\ base_sol' = Unsized
    /\ local_sol' = Unsized /\ local_vel' = Unsized
    /\ local_accel' = Unsized /\ local_base_sol' = Unsized
    /\ last' = [op |-> "destroy", err |-> FALSE]
    /\ UNCHANGED <<build_vars, tf, disp_vars, asm_vars>>

----------------------------------------------------------------------------
(* Solution state, lines 63-101 *)

Ramp(N) == [i \in 0..(N - 1) |-> i + 1]

Alt(N) == [i \in 0..(N - 1) |-> (i % 3) - 1]

\* the global vectors the driver pushes to an element with n nodes
PushVecs(n) == {Ramp(6 * n), Alt(6 * n)}

SetterIgnoresSens(global_vec, if_sens, local_vec) ==
    AssertFails(Size(local_vec) = Size(global_vec))

\* the test shared by set_solution / set_velocity / set_base_solution: the
\* call ends in libmesh_error() when if_sens, and in the size assertion of
\* transform_vector_to_local_system(vec, local) when that fails; the
\* base-class setter runs after both
SetterFails(global_vec, if_sens, local_vec) ==
    \/ if_sens
    \/ AssertFails(Size(local_vec) = Size(global_vec))

\* how often a setter that gets past its checks builds the 6n x 6n block
\* matrix and multiplies with it: transform_vector_to_local_system is called
\* without a test of the dimension
SetterBlocks(dim) == 1

set_solution ==
    /\ elem.built
    /\ \E vec \in PushVecs(elem.n), if_sens \in BOOLEAN :
          /\ IF SetterFails(vec, if_sens, local_sol)
             THEN /\ last' = [op |-> "set_solution", if_sens |-> if_sens, err |-> TRUE, blocks |-> 0]
                  /\ UNCHANGED <<local_sol, sol>>
             ELSE /\ last' = [op |-> "set_solution", if_sens |-> if_sens, err |-> FALSE,
                              blocks |-> SetterBlocks(elem.dim)]
                  /\ local_sol' = transform_vector_to_local_system(elem, vec)
                  /\ sol' = vec
    /\ UNCHANGED <<elem, vel, accel, base_sol, local_vel, local_accel, local_base_sol>>
    /\ UNCHANGED <<build_vars, tf, disp_vars, asm_vars>>

set_velocity ==
    /\ elem.built
    /\ \E vec \in PushVecs(elem.n), if_sens \in BOOLEAN :
          /\ IF SetterFails(vec, if_sens, local_vel)
             THEN /\ last' = [op |-> "set_velocity", if_sens |-> if_sens, err |-> TRUE, blocks |-> 0]
                  /\ UNCHANGED <<local_vel, vel>>
             ELSE /\ last' = [op |-> "set_velocity", if_sens |-> if_sens, err |-> FALSE,
                              blocks |-> SetterBlocks(elem.dim)]
                  /\ local_vel' = transform_vector_to_local_system(elem, vec)
                  /\ vel' = vec
    /\ UNCHANGED <<elem, sol, accel, base_sol, local_sol, local_accel, local_base_sol>>
    /\ UNCHANGED <<build_vars, tf, disp_vars, asm_vars>>

set_base_solution ==
    /\ elem.built
    /\ \E vec \in PushVecs(elem.n), if_sens \in BOOLEAN :
          /\ IF SetterFails(vec, if_sens, local_base_sol)
             THEN /\ last' = [op |-> "set_base_solution", if_sens |-> if_sens,
                              err |-> TRUE, blocks |-> 0]
                  /\ UNCHANGED <<local_base_sol, base_sol>>
             ELSE /\ last' = [op |-> "set_base_solution", if_sens |-> if_sens,
                              err |-> FALSE,
                              blocks |-> SetterBlocks(elem.dim)]
                  /\ local_base_sol' = transform_vector_to_local_system(elem, vec)
                  /\ base_sol' = vec
    /\ UNCHANGED <<elem, sol, vel, accel, local_sol, local_vel, local_accel>>
    /\ UNCHANGED <<build_vars, tf, disp_vars, asm_vars>>

\* the file overrides no set_acceleration: a pushed acceleration reaches the
\* base-class setter alone, and nothing in the file writes _local_accel
set_acceleration ==
    /\ elem.built
    /\ \E vec \in PushVecs(elem.n) :
          /\ accel' = vec
          /\ last' = [op |-> "set_acceleration", if_sens |-> FALSE, err |-> FALSE,
                      blocks |-> 0]
    /\ UNCHANGED <<elem, sol, vel, base_sol,
                   local_sol, local_vel, local_accel, local_base_sol>>
    /\ UNCHANGED <<build_vars, tf, disp_vars, asm_vars>>

----------------------------------------------------------------------------
(* Frame transformation calls *)

NoTransform == [op |-> "none"]

UnitVec(N, k) == [i \in 0..(N - 1) |-> IF i = k THEN 1 ELSE 0]

\* the vectors of length 6n handed to the transformations
TransformVecs(n) ==
    {UnitVec(6 * n, k) : k \in 0..(6 * n - 1)} \cup {Ramp(6 * n), Alt(6 * n)}

\* global -> local -> global; "sized" tells whether the caller sized the two
\* output buffers to the input's length (both routines assert equal sizes)
RoundTripFromGlobal ==
    /\ elem.built
    /\ tf = NoTransform
    /\ \E v \in TransformVecs(elem.n), sized \in BOOLEAN :
          LET mid == transform_vector_to_local_system(elem, v)
              out == transform_vector_to_global_system(elem, mid)
          IN tf' = IF AssertFails(sized)
                   THEN [op |-> "local_of_global", v |-> v, err |-> TRUE]
                   ELSE [op |-> "local_of_global", v |-> v, err |-> FALSE,
                         mid |-> mid, out |-> out]
    /\ UNCHANGED <<elem_vars, build_vars, disp_vars, asm_vars>>

\* local -> global -> local
RoundTripFromLocal ==
    /\ elem.built
    /\ tf = NoTransform
    /\ \E v \in TransformVecs(elem.n), sized \in BOOLEAN :
          LET mid == transform_vector_to_global_system(elem, v)
              out == transform_vector_to_local_system(elem, mid)
          IN tf' = IF AssertFails(sized)
                   THEN [op |-> "global_of_local", v |-> v, err |-> TRUE]
                   ELSE [op |-> "global_of_local", v |-> v, err |-> FALSE,
                         mid |-> mid, out |-> out]
    /\ UNCHANGED <<elem_vars, build_vars, disp_vars, asm_vars>>

----------------------------------------------------------------------------
(* Finite element data and field functions read by the residual routines *)

\* quadrature points of the element rule and of every side rule
QPoints == 0..(MaxQP - 1)

\* fe->get_JxW()[qp]; multiples of 60, so that the element volume divided by
\* the number of nodes is exact
JxW(qp) == 60 * (qp + 1)

\* fe->get_phi()[i_nd][qp]
phi(i_nd, qp) == 1 + ((i_nd + qp) % 2)

\* fe->get_normals()[qp] of a side: the unit vector of one axis
face_normals(side, qp) == [d \in 0..2 |-> IF d = side % 3 THEN 1 ELSE 0]

\* the "pressure", "dpressure" and "dnormal" field functions of a boundary
\* condition b at the global location of quadrature point qp
pressure(b, qp) == b.p * (qp + 1)

dpressure(b, qp) == b.p + qp

dnormal(b, qp) == [d \in 0..2 |-> IF d = 0 THEN b.p ELSE 0]

\* Bmat.reinit(2*n1, phi_vec); Bmat.vector_mult_transpose(vec_n2, force):
\* entry c*n + i of the result is phi_vec(i) * force(c)
vector_mult_transpose(n, qp, force) ==
    [r \in 0..(6 * n - 1) |-> phi(r % n, qp) * force[r \div n]]

PressureForceDropsPressure(press, normal) ==
    [d \in 0..5 |-> IF d < 3 THEN normal[d] ELSE 0]

\* force(i_dim) = press * normal(i_dim) for i_dim < n1, the other three 0
PressureForce(press, normal) ==
    [d \in 0..5 |-> IF d < 3 THEN press * normal[d] ELSE 0]

\* force(i_dim) = press * dn_rot(i_dim) + dpress * normal(i_dim)
DisturbanceForce(press, dn_rot, dpress, normal) ==
    [d \in 0..5 |-> IF d < 3 THEN press * dn_rot[d] + dpress * normal[d] ELSE 0]

\* the quadrature loop: local_f += JxW[qp] * vec_n2 over all points, where
\* force[qp] is the force vector of point qp
Quadrature(n, force) ==
    Evaluated([r \in 0..(6 * n - 1) |->
        SumUpTo([qp \in QPoints |->
                   JxW(qp) * vector_mult_transpose(n, qp, force[qp])[r]], MaxQP)])

\* normal(_elem.dim()) = -1. on a zero point, for a dimension below 3
AssumedNormal(dim) == [d \in 0..2 |-> IF d = dim THEN -1 ELSE 0]

----------------------------------------------------------------------------
(* Pressure residual routines, lines 345-696 *)

\* what an out-of-bounds write does in a build without assertions:
\* the process dies, or it goes on with the write lost
UBOutcomes == {"trap", "silent"}

Fatal(f, jac) == [err |-> TRUE, f |-> f, jac |-> jac, ret |-> FALSE]

\* return (request_jacobian && follower_forces)
PressureReturn(request_jacobian) == request_jacobian /\ follower_forces

\* libmesh_assert(!follower_forces)
FollowerAssertFails(request_jacobian) == AssertFails(~follower_forces)

\* surface_pressure_residual(request_jacobian, f, jac, side, bc)
surface_pressure_residual_side(request_jacobian, f, jac, side, b) ==
    IF FollowerAssertFails(request_jacobian) THEN Fatal(f, jac)
    ELSE LET Force(qp) == PressureForce(pressure(b, qp), face_normals(side, qp))
             local_f == Quadrature(elem.n, [qp \in QPoints |-> Force(qp)])
         IN [err |-> FALSE,
             f |-> IF elem.dim < 3
                   THEN VecAdd(f, transform_vector_to_global_system(elem, local_f))
                   ELSE VecAdd(f, local_f),
             jac |-> jac,
             ret |-> PressureReturn(request_jacobian)]

\* surface_pressure_residual(request_jacobian, f, jac, bc); on a 3D element
\* without assertions, normal(3) = -1. writes past the point's coordinates
surface_pressure_residual(request_jacobian, f, jac, b, ub) ==
    IF AssertFails(elem.dim < 3) \/ FollowerAssertFails(request_jacobian)
    THEN Fatal(f, jac)
    ELSE IF elem.dim >= 3 /\ ub = "trap" THEN Fatal(f, jac)
    ELSE LET normal == IF elem.dim < 3 THEN AssumedNormal(elem.dim) ELSE Zero(3)
             Force(qp) == PressureForce(pressure(b, qp), normal)
             local_f == Quadrature(elem.n, [qp \in QPoints |-> Force(qp)])
         IN [err |-> FALSE,
             f |-> VecAdd(f, transform_vector_to_global_system(elem, local_f)),
             jac |-> jac,
             ret |-> PressureReturn(request_jacobian)]

\* small_disturbance_surface_pressure_residual(request_jacobian, f, jac, side, bc)
small_disturbance_surface_pressure_residual_side(request_jacobian, f, jac, side, b) ==
    IF \/ FollowerAssertFails(request_jacobian)
       \/ AssertFails(b.type = "SMALL_DISTURBANCE_MOTION")
    THEN Fatal(f, jac)
    ELSE LET Force(qp) == DisturbanceForce(pressure(b, qp), dnormal(b, qp),
                                           dpressure(b, qp), face_normals(side, qp))
             local_f == Quadrature(elem.n, [qp \in QPoints |-> Force(qp)])
         IN [err |-> FALSE,
             f |-> IF elem.dim < 3
                   THEN VecAdd(f, transform_vector_to_global_system(elem, local_f))
                   ELSE VecAdd(f, local_f),
             jac |-> jac,
             ret |-> PressureReturn(request_jacobian)]

\* length of phi_vec before the quadrature loop of the whole-element
\* small-disturbance routine: "RealVectorX phi_vec;" is never sized
phi_vec_size(n_phi) == 0

\* small_disturbance_surface_pressure_residual(request_jacobian, f, jac, bc):
\* the first write phi_vec(i_nd) is checked by Eigen in a build with
\* assertions and is an out-of-bounds write in a build without
small_disturbance_surface_pressure_residual(request_jacobian, f, jac, b, ub) ==
    IF \/ AssertFails(elem.dim < 3)
       \/ FollowerAssertFails(request_jacobian)
       \/ AssertFails(b.type = "SMALL_DISTURBANCE_MOTION")
    THEN Fatal(f, jac)
    ELSE IF MaxQP > 0 /\ AssertFails(phi_vec_size(elem.n) >= elem.n)
    THEN Fatal(f, jac)
    ELSE IF ub = "trap" /\ (elem.dim >= 3 \/ (MaxQP > 0 /\ phi_vec_size(elem.n) < elem.n))
    THEN Fatal(f, jac)
    ELSE LET normal == IF elem.dim < 3 THEN AssumedNormal(elem.dim) ELSE Zero(3)
             Force(qp) == DisturbanceForce(pressure(b, qp), dnormal(b, qp),
                                           dpressure(b, qp), normal)
             local_f == Quadrature(elem.n, [qp \in QPoints |-> Force(qp)])
         IN [err |-> FALSE,
             f |-> VecAdd(f, transform_vector_to_global_system(elem, local_f)),
             jac |-> jac,
             ret |-> PressureReturn(request_jacobian)]

\* thermal_residual(request_jacobian, f, jac, bc) of the derived element: adds
\* the thermal load to f and, when it has a Jacobian term (thermal_jac) and
\* one is requested, a term to jac, and reports that
thermal_residual(request_jacobian, f, jac, b, thermal_jac) ==
    [err |-> FALSE,
     f |-> VecAdd(f, [r \in DOMAIN f |-> b.p]),
     jac |-> IF request_jacobian /\ thermal_jac THEN jac + 1 ELSE jac,
     ret |-> request_jacobian /\ thermal_jac]

----------------------------------------------------------------------------
(* Boundary load dispatch, lines 213-340 *)

NoCall == [kind |-> "none"]

\* MAST::BoundaryConditionType: the four tags the dispatchers name, and one of
\* the others
BCTypes == {"SURFACE_PRESSURE", "TEMPERATURE", "SMALL_DISTURBANCE_MOTION",
            "DIRICHLET", "HEAT_FLUX"}

\* a boundary condition object of a type, with the scale p of its fields
BoundaryCondition(type, p) == [type |-> type, p |-> p]

\* boundary and subdomain ids of the mesh
BoundaryIds == {1, 2}

\* the multimaps: at most MaxBC (id, condition) pairs, ordered by id, equal
\* ids in insertion order
Multimaps ==
    {m \in UNION {[1..k -> [id : BoundaryIds,
                            b : {BoundaryCondition(t, 1) : t \in BCTypes}]] :
                  k \in 0..MaxBC} :
        \A i \in 1..(Len(m) - 1) : m[i].id <= m[i + 1].id}

\* _elem.n_sides() of the simplex of the element's dimension
n_sides(e) == e.dim + 1

\* binfo.boundary_ids(&_elem, n): side 0 lies on boundaries 1 and 2, side 1 on
\* boundary 2, every further side on none
boundary_ids(n) == IF n = 0 THEN <<1, 2>> ELSE IF n = 1 THEN <<2>> ELSE <<>>

\* _elem.subdomain_id()
subdomain_id == 1

\* bc.equal_range(id): the positions of the pairs with that id, in map order
equal_range(map, id) ==
    LET InRange(i) == map[i].id = id
    IN SelectSeq([i \in 1..Len(map) |-> i], InRange)

\* the pairs of one range as work items of a side (-1: the whole element)
RangeWork(map, side, id) ==
    LET range == equal_range(map, id)
    IN [k \in 1..Len(range) |-> [side |-> side, ix |-> range[k]]]

RECURSIVE IdsWork(_, _, _, _)
\* for ( ; bc_it != bc_ids.end(); bc_it++)
IdsWork(map, side, ids, k) ==
    IF k > Len(ids) THEN <<>>
    ELSE RangeWork(map, side, ids[k]) \o IdsWork(map, side, ids, k + 1)

RECURSIVE SidesWork(_, _, _)
\* for (n = 0; n < _elem.n_sides(); n++), skipping the sides without ids
SidesWork(map, e, n) ==
    IF n >= n_sides(e) THEN <<>>
    ELSE (IF Len(boundary_ids(n)) = 0 THEN <<>>
          ELSE IdsWork(map, n, boundary_ids(n), 1)) \o SidesWork(map, e, n + 1)

SideCaseSkipsUnknown(type) ==
    CASE type = "SURFACE_PRESSURE" -> "surface_pressure_residual"
      [] type = "SMALL_DISTURBANCE_MOTION" ->
            "small_disturbance_surface_pressure_residual"
      [] OTHER -> "nothing"

SideCaseDirichletFatal(type) ==
    CASE type = "SURFACE_PRESSURE" -> "surface_pressure_residual"
      [] type = "SMALL_DISTURBANCE_MOTION" ->
            "small_disturbance_surface_pressure_residual"
      [] OTHER -> "libmesh_error"

\* switch (it.first->second->type()) of side_external_residual
SideCase(type) ==
    CASE type = "SURFACE_PRESSURE" -> "surface_pressure_residual"
      [] type = "SMALL_DISTURBANCE_MOTION" ->
            "small_disturbance_surface_pressure_residual"
      [] type = "DIRICHLET" -> "nothing"
      [] OTHER -> "libmesh_error"

\* switch (it.first->second->type()) of volume_external_residual
VolumeCase(type) ==
    CASE type = "SURFACE_PRESSURE" -> "surface_pressure_residual"
      [] type = "TEMPERATURE" -> "thermal_residual"
      [] type = "SMALL_DISTURBANCE_MOTION" ->
            "small_disturbance_surface_pressure_residual"
      [] OTHER -> "libmesh_error"

\* calculate_jac = (calculate_jac || handler(...)): the handler is called
\* only while calculate_jac is still false
HandlerInvoked(calculate_jac) == ~calculate_jac

\* the typed handler of a work item
Handler(routine, request_jacobian, f, jac, side, b, thermal_jac, ub) ==
    CASE routine = "surface_pressure_residual" /\ side >= 0 ->
            surface_pressure_residual_side(request_jacobian, f, jac, side, b)
      [] routine = "surface_pressure_residual" /\ side < 0 ->
            surface_pressure_residual(request_jacobian, f, jac, b, ub)
      [] routine = "small_disturbance_surface_pressure_residual" /\ side >= 0 ->
            small_disturbance_surface_pressure_residual_side(request_jacobian,
                                                             f, jac, side, b)
      [] routine = "small_disturbance_surface_pressure_residual" /\ side < 0 ->
            small_disturbance_surface_pressure_residual(request_jacobian,
                                                        f, jac, b, ub)
      [] OTHER -> thermal_residual(request_jacobian, f, jac, b, thermal_jac)

\* the loop state after a handler returned h for a work item
AfterHandler(st, item, routine, h) ==
    [err |-> h.err, f |-> h.f, jac |-> h.jac,
     calculate_jac |-> st.calculate_jac \/ h.ret,
     calls |-> Append(st.calls, [ix |-> item.ix, side |-> item.side,
                                 routine |-> routine, ret |-> h.ret,
                                 err |-> h.err])]

\* one iteration of the innermost loop: the switch on the condition's type
DispatchStep(st, item, routine, b, request_jacobian, thermal_jac, ub) ==
    IF routine = "libmesh_error" THEN [st EXCEPT !.err = TRUE]
    ELSE IF routine = "nothing" THEN st
    ELSE IF ~HandlerInvoked(st.calculate_jac) THEN st
    ELSE AfterHandler(st, item, routine,
                      Handler(routine, request_jacobian, st.f, st.jac,
                              item.side, b, thermal_jac, ub))

RECURSIVE DispatchLoop(_, _, _, _, _, _, _, _)
\* the loops over the work items; a fatal error ends them
DispatchLoop(map, work, k, st, volume, request_jacobian, thermal_jac, ub) ==
    IF k > Len(work) \/ st.err THEN st
    ELSE DispatchLoop(map, work, k + 1,
            DispatchStep(st, work[k],
                         IF volume THEN VolumeCase(map[work[k].ix].b.type)
                         ELSE SideCase(map[work[k].ix].b.type),
                         map[work[k].ix].b, request_jacobian, thermal_jac, ub),
            volume, request_jacobian, thermal_jac, ub)

\* bool calculate_jac = false, on the caller's f and jac
LoopStart(f, jac) ==
    [err |-> FALSE, f |-> f, jac |-> jac, calculate_jac |-> FALSE, calls |-> <<>>]

DispatchReturnOr(request_jacobian, calculate_jac) ==
    request_jacobian \/ calculate_jac

\* return (request_jacobian && calculate_jac)
DispatchReturn(request_jacobian, calculate_jac) ==
    request_jacobian /\ calculate_jac

\* what the caller sees of a dispatch call
DispatchResult(kind, request_jacobian, st) ==
    [kind |-> kind, request_jacobian |-> request_jacobian,
     err |-> st.err, f |-> st.f, jac |-> st.jac,
     ret |-> ~st.err /\ DispatchReturn(request_jacobian, st.calculate_jac),
     calls |-> st.calls]

side_external_residual(request_jacobian, f, jac, map) ==
    DispatchResult("side_external_residual", request_jacobian,
        DispatchLoop(map, SidesWork(map, elem, 0), 1, LoopStart(f, jac),
                     FALSE, request_jacobian, FALSE, "trap"))

volume_external_residual(request_jacobian, f, jac, map, thermal_jac, ub) ==
    DispatchResult("volume_external_residual", request_jacobian,
        DispatchLoop(map, RangeWork(map, -1, subdomain_id), 1, LoopStart(f, jac),
                     TRUE, request_jacobian, thermal_jac, ub))

\* the residual f the caller has accumulated before the call
CallerF(e) == Ramp(6 * e.n)

SideExternalResidual ==
    /\ res = NoCall
    /\ \E request_jacobian \in BOOLEAN :
          res' = side_external_residual(request_jacobian, CallerF(elem), 0, bc)
    /\ UNCHANGED <<elem_vars, build_vars, tf, bc, asm_vars>>

VolumeExternalResidual ==
    /\ res = NoCall
    /\ \E request_jacobian \in BOOLEAN, thermal_jac \in BOOLEAN, ub \in UBOutcomes :
          res' = volume_external_residual(request_jacobian, CallerF(elem), 0, bc,
                                          thermal_jac, ub)
    /\ UNCHANGED <<elem_vars, build_vars, tf, bc, asm_vars>>

----------------------------------------------------------------------------
(* Initial values of the parts a specification leaves alone *)

NoHook == "NULL"

InitElemPart ==
    /\ elem = NoElem
    /\ sol = Unsized /\ vel = Unsized /\ accel = Unsized /\ base_sol = Unsized
    /\ local_sol = Unsized /\ local_vel = Unsized
    /\ local_accel = Unsized /\ local_base_sol = Unsized
    /\ last = [op |-> "none", err |-> FALSE]

InitVectorsPart ==
    /\ sol = Unsized /\ vel = Unsized /\ accel = Unsized /\ base_sol = Unsized
    /\ local_sol = Unsized /\ local_vel = Unsized
    /\ local_accel = Unsized /\ local_base_sol = Unsized
    /\ last = [op |-> "none", err |-> FALSE]

InitDispatchPart ==
    /\ bc = <<>>
    /\ res = NoCall

InitAssemblyPart ==
    /\ attached = FALSE
    /\ post_assembly = NoHook
    /\ pc = "idle"
    /\ X = 1
    /\ todo = {}
    /\ R = <<>>
    /\ J = <<>>
    /\ hook_log = <<>>
    /\ registered = <<>>
    /\ analytic = {}
    /\ sens = <<>>

\* the elements construction can produce
BuiltElems ==
    {[built |-> TRUE, dim |-> dim, local_elem |-> LocalElemKind(dim),
      kind |-> StructuralElementKind(dim), T |-> T, n |-> n] :
        dim \in 1..3, T \in Rotations \cup {Identity3}, n \in 2..(4 + MaxExtraNodes)}

\* those of one dimension, with the local frames of the given set
ElemsOfDim(dim, frames) ==
    {e \in BuiltElems : e.dim = dim /\ e.n \in n_shape_functions(dim)
                        /\ e.T \in (IF dim = 3 THEN {Identity3} ELSE frames)}

----------------------------------------------------------------------------
(* Element lifecycle: construction, pushes of the solution state *)

InitElem ==
    /\ asserts_enabled \in BOOLEAN
    /\ follower_forces = FALSE
    /\ InitElemPart
    /\ tf = NoTransform
    /\ InitDispatchPart
    /\ InitAssemblyPart

NextElem ==
    \/ Construct
    \/ Build
    \/ Destroy
    \/ set_solution
    \/ set_velocity
    \/ set_base_solution
    \/ set_acceleration

SpecElem == InitElem /\ [][NextElem]_vars

----------------------------------------------------------------------------
(* Frame transformations of a constructed element *)

InitTransform ==
    /\ asserts_enabled \in BOOLEAN
    /\ follower_forces = FALSE
    /\ elem \in ElemsOfDim(1, Rotations) \cup ElemsOfDim(2, Rotations)
                \cup ElemsOfDim(3, Rotations)
    /\ InitVectorsPart
    /\ tf = NoTransform
    /\ InitDispatchPart
    /\ InitAssemblyPart

\* the local matrices handed to transform_matrix_to_global_system: a
\* diagonal one and a full, non-symmetric one
TransformMats(n) ==
    {[r \in 0..(6 * n - 1) |-> [c \in 0..(6 * n - 1) |->
         IF r = c THEN r + 1 ELSE 0]],
     [r \in 0..(6 * n - 1) |-> [c \in 0..(6 * n - 1) |->
         ((r + 2 * c) % 5) - 2]]}

\* a local matrix and a local vector taken to the global frame, together
\* with their product taken there and the vector taken back; "sized" tells
\* whether the caller sized the output buffers (all three routines assert it)
MatrixToGlobal ==
    /\ elem.built
    /\ tf = NoTransform
    /\ \E M \in TransformMats(elem.n), v \in PushVecs(elem.n), sized \in BOOLEAN :
          tf' = IF AssertFails(sized)
                THEN [op |-> "matrix_to_global", v |-> v, M |-> M, err |-> TRUE]
                ELSE [op |-> "matrix_to_global", v |-> v, M |-> M, err |-> FALSE,
                      gM |-> transform_matrix_to_global_system(elem, M),
                      gv |-> transform_vector_to_global_system(elem, v),
                      lv |-> transform_vector_to_local_system(elem, v),
                      gMv |-> transform_vector_to_global_system(elem,
                                 MatVec(M, v, 6 * elem.n))]
    /\ UNCHANGED <<elem_vars, build_vars, disp_vars, asm_vars>>

NextTransform ==
    \/ RoundTripFromGlobal
    \/ RoundTripFromLocal
    \/ MatrixToGlobal

SpecTransform == InitTransform /\ [][NextTransform]_vars

----------------------------------------------------------------------------
(* Claims on construction and on the solution state *)

ConstructorCall == last.op \in {"StructuralElementBase", "build_structural_element"}

\* C6 as stated: a constructor call for a dimension outside 1..3 fails and
\* yields no element, and one for dimension 1, 2 or 3 succeeds
C6_AsStated ==
    ConstructorCall =>
        /\ last.dim \notin 1..3 => (last.err /\ ~elem.built)
        /\ last.dim \in 1..3 => (~last.err /\ elem.built)

\* C6 (amended): a constructor call for a dimension outside 1..3 fails and
\* yields no element; so does one for dimension 1 with a property card that is
\* not an ElementPropertyCard1D; every other call for dimension 1, 2, 3
\* succeeds with the local frame of that dimension, and build_structural_element
\* with the element kind of that dimension
C6_ConstructionByDimension ==
    ConstructorCall =>
        LET bad == \/ last.dim \notin 1..3
                   \/ (last.dim = 1 /\ last.card # "ElementPropertyCard1D")
        IN /\ bad => (last.err /\ ~elem.built)
           /\ ~bad =>
                /\ ~last.err /\ elem.built /\ elem.dim = last.dim
                /\ elem.local_elem =
                     <<"Local1DElem", "Local2DElem", "Local3DElem">>[last.dim]
                /\ last.op = "build_structural_element" =>
                     elem.kind = <<"StructuralElement1D", "StructuralElement2D",
                                   "StructuralElement3D">>[last.dim]

C6_Witness ==
    /\ last.op = "build_structural_element"
    /\ last.dim = 2
    /\ elem.built /\ elem.kind = "StructuralElement2D"

\* C7 as stated: each cached local copy is toLocal of the global vector of its
\* kind that was pushed last
C7_LocalCopiesFresh ==
    elem.built =>
        /\ sol # Unsized => local_sol = transform_vector_to_local_system(elem, sol)
        /\ vel # Unsized => local_vel = transform_vector_to_local_system(elem, vel)
        /\ base_sol # Unsized =>
              local_base_sol = transform_vector_to_local_system(elem, base_sol)
        /\ accel # Unsized =>
              local_accel = transform_vector_to_local_system(elem, accel)

SetterCall == last.op \in {"set_solution", "set_velocity", "set_base_solution"}

\* the pair (global vector, cached local copy) the last setter call wrote
SetterPair ==
    CASE last.op = "set_solution" -> <<sol, local_sol>>
      [] last.op = "set_velocity" -> <<vel, local_vel>>
      [] OTHER                    -> <<base_sol, local_base_sol>>

\* C11 as stated: a setter call that succeeds on a 3D element leaves the
\* local copy equal to the pushed vector and has not built or multiplied the
\* block transformation matrix
C11_3DGenuineNoOp ==
    (SetterCall /\ ~last.err /\ elem.built /\ elem.dim = 3) =>
        /\ SetterPair[2] = SetterPair[1]
        /\ last.blocks = 0

\* C10: on a 1D or 2D element with an orthonormal T, a completed round trip
\* global -> local -> global, or local -> global -> local, returns its input
C10_RoundTrip ==
    (/\ tf.op \in {"local_of_global", "global_of_local"}
     /\ ~tf.err
     /\ elem.dim < 3
     /\ IsOrthonormal(elem.T)) => tf.out = tf.v

C10_Witness ==
    /\ tf.op = "local_of_global" /\ ~tf.err
    /\ elem.dim = 2 /\ IsOrthonormal(elem.T) /\ elem.T # Identity3
    /\ tf.v = Ramp(6 * elem.n)
    /\ tf.mid # tf.v
    /\ tf.out = tf.v

----------------------------------------------------------------------------
(* Boundary load dispatch on a constructed element *)

\* the simplex elements the dispatchers are run on
DispatchElems ==
    {e \in BuiltElems : e.n = e.dim + 1
                        /\ e.T = (IF e.dim = 3 THEN Identity3 ELSE Mat3(Cyc))}

InitDispatch ==
    /\ asserts_enabled \in BOOLEAN
    /\ follower_forces \in BOOLEAN
    /\ elem \in DispatchElems
    /\ InitVectorsPart
    /\ tf = NoTransform
    /\ bc \in Multimaps
    /\ res = NoCall
    /\ InitAssemblyPart

NextDispatch ==
    \/ SideExternalResidual
    \/ VolumeExternalResidual

SpecDispatch == InitDispatch /\ [][NextDispatch]_vars

----------------------------------------------------------------------------
(* Direct calls of the four pressure residual routines *)

\* the conditions handed to the surface pressure routines
PressureBCs == {BoundaryCondition("SURFACE_PRESSURE", p) : p \in 0..2}

\* the conditions handed to the small-disturbance routines
DisturbanceBCs == {BoundaryCondition("SMALL_DISTURBANCE_MOTION", p) : p \in 0..2}

\* what the caller sees of a direct call that returned h
DirectResult(kind, request_jacobian, side, b, h) ==
    [kind |-> kind, request_jacobian |-> request_jacobian, side |-> side, b |-> b,
     err |-> h.err, f |-> h.f, jac |-> h.jac, ret |-> h.ret, calls |-> <<>>]

SurfacePressureSide ==
    /\ res = NoCall
    /\ \E request_jacobian \in BOOLEAN, side \in 0..(n_sides(elem) - 1),
          b \in PressureBCs :
          res' = DirectResult("surface_pressure_residual_side", request_jacobian,
                    side, b,
                    surface_pressure_residual_side(request_jacobian,
                                                   CallerF(elem), 0, side, b))
    /\ UNCHANGED <<elem_vars, build_vars, tf, bc, asm_vars>>

SurfacePressureElem ==
    /\ res = NoCall
    /\ \E request_jacobian \in BOOLEAN, b \in PressureBCs, ub \in UBOutcomes :
          res' = DirectResult("surface_pressure_residual", request_jacobian,
                    -1, b,
                    surface_pressure_residual(request_jacobian,
                                              CallerF(elem), 0, b, ub))
    /\ UNCHANGED <<elem_vars, build_vars, tf, bc, asm_vars>>

SmallDisturbanceSide ==
    /\ res = NoCall
    /\ \E request_jacobian \in BOOLEAN, side \in 0..(n_sides(elem) - 1),
          b \in DisturbanceBCs :
          res' = DirectResult("small_disturbance_surface_pressure_residual_side",
                    request_jacobian, side, b,
                    small_disturbance_surface_pressure_residual_side(
                        request_jacobian, CallerF(elem), 0, side, b))
    /\ UNCHANGED <<elem_vars, build_vars, tf, bc, asm_vars>>

SmallDisturbanceElem ==
    /\ res = NoCall
    /\ \E request_jacobian \in BOOLEAN, b \in DisturbanceBCs, ub \in UBOutcomes :
          res' = DirectResult("small_disturbance_surface_pressure_residual",
                    request_jacobian, -1, b,
                    small_disturbance_surface_pressure_residual(
                        request_jacobian, CallerF(elem), 0, b, ub))
    /\ UNCHANGED <<elem_vars, build_vars, tf, bc, asm_vars>>

InitPressure ==
    /\ asserts_enabled \in BOOLEAN
    /\ follower_forces \in BOOLEAN
    /\ elem \in ElemsOfDim(1, T_matrix(1)) \cup ElemsOfDim(2, T_matrix(2))
                \cup ElemsOfDim(3, T_matrix(3))
    /\ InitVectorsPart
    /\ tf = NoTransform
    /\ InitDispatchPart
    /\ InitAssemblyPart

NextPressure ==
    \/ SurfacePressureSide
    \/ SurfacePressureElem
    \/ SmallDisturbanceSide
    \/ SmallDisturbanceElem

SpecPressure == InitPressure /\ [][NextPressure]_vars

----------------------------------------------------------------------------
(* Claims on the boundary load dispatch and on the pressure routines *)

DispatchCall == res.kind \in {"side_external_residual", "volume_external_residual"}

\* the (side, condition) pairs the call of res had to dispatch, in loop order
WorkOf(r, map) ==
    IF r.kind = "side_external_residual" THEN SidesWork(map, elem, 0)
    ELSE RangeWork(map, -1, subdomain_id)

\* how often the call invoked a handler for a work item
TimesRouted(r, item) ==
    Cardinality({j \in 1..Len(r.calls) :
                    r.calls[j].ix = item.ix /\ r.calls[j].side = item.side})

\* C1 as stated: in a dispatch call that returns, every applicable condition
\* with a typed handler has been routed to it exactly once, whatever the
\* handlers dispatched before it returned
C1_EveryConditionRouted ==
    (DispatchCall /\ ~res.err) =>
        \A k \in 1..Len(WorkOf(res, bc)) :
            bc[WorkOf(res, bc)[k].ix].b.type # "DIRICHLET" =>
                TimesRouted(res, WorkOf(res, bc)[k]) = 1

SomeHandlerReported(r) == \E j \in 1..Len(r.calls) : r.calls[j].ret

\* C2 as stated: the value returned is (some handler reported a Jacobian
\* contribution) OR request_jacobian
C2_ReturnIsOr ==
    (DispatchCall /\ ~res.err) =>
        (res.ret <=> (SomeHandlerReported(res) \/ res.request_jacobian))

\* C2 (amended): the value returned by side_external_residual and by
\* volume_external_residual is request_jacobian AND (some handler the call
\* invoked reported a Jacobian contribution); it is false when no condition
\* matches the element
C2_ReturnIsAnd ==
    (DispatchCall /\ ~res.err) =>
        (res.ret <=> (SomeHandlerReported(res) /\ res.request_jacobian))

C2_Witness ==
    /\ DispatchCall /\ ~res.err
    /\ res.request_jacobian /\ ~res.ret
    /\ Len(res.calls) > 0

KnownTags == {"SURFACE_PRESSURE", "TEMPERATURE", "SMALL_DISTURBANCE_MOTION",
              "DIRICHLET"}

HasUnknownTag(work, map) ==
    \E k \in 1..Len(work) : map[work[k].ix].b.type \notin KnownTags

\* C3: a dispatch call that has a condition with an unrecognized type tag
\* among its applicable conditions ends in a fatal error, in any position of
\* that condition and for either value of request_jacobian
C3_UnknownTagFatal ==
    (DispatchCall /\ HasUnknownTag(WorkOf(res, bc), bc)) => res.err

C3_Witness ==
    /\ res.kind = "side_external_residual" /\ res.err
    /\ Len(res.calls) > 0
    /\ \A j \in 1..Len(res.calls) : ~res.calls[j].err
    /\ HasUnknownTag(WorkOf(res, bc), bc)
    /\ bc[WorkOf(res, bc)[1].ix].b.type = "SURFACE_PRESSURE"

PressureCall ==
    res.kind \in {"surface_pressure_residual_side", "surface_pressure_residual",
                  "small_disturbance_surface_pressure_residual_side",
                  "small_disturbance_surface_pressure_residual"}

\* C4 as stated: a pressure residual routine called with request_jacobian
\* while follower_forces is set ends in a fatal error
C4_FollowerJacobianFatal ==
    (PressureCall /\ res.request_jacobian /\ follower_forces) => res.err

\* the map without its DIRICHLET conditions
NoDirichlet(map) ==
    LET Kept(e) == e.b.type # "DIRICHLET"
    IN SelectSeq(map, Kept)

\* what a dispatch call did, without the positions of the conditions in the map
Outcome(r) ==
    [err |-> r.err, f |-> r.f, jac |-> r.jac, ret |-> r.ret,
     calls |-> [j \in 1..Len(r.calls) |->
                  [side |-> r.calls[j].side, routine |-> r.calls[j].routine,
                   ret |-> r.calls[j].ret, err |-> r.calls[j].err]]]

SideDirichletNoOp ==
    res.kind = "side_external_residual" =>
        Outcome(res) = Outcome(side_external_residual(res.request_jacobian,
                                   CallerF(elem), 0, NoDirichlet(bc)))

\* C5 as stated: in side and in volume dispatch the call does what it does
\* on the map without the DIRICHLET conditions
C5_DirichletNoOpEverywhere ==
    /\ SideDirichletNoOp
    /\ res.kind = "volume_external_residual" =>
          \E thermal_jac \in BOOLEAN, ub \in UBOutcomes :
             Outcome(res) = Outcome(volume_external_residual(res.request_jacobian,
                                CallerF(elem), 0, NoDirichlet(bc), thermal_jac, ub))

HasDirichlet(work, map) ==
    \E k \in 1..Len(work) : map[work[k].ix].b.type = "DIRICHLET"

\* C5 (amended): in side dispatch a DIRICHLET condition is a no-op: the call
\* does what it does on the map without the DIRICHLET conditions (same
\* failure or success, f, jac, returned flag and handler calls); volume
\* dispatch has no DIRICHLET case, and a call with a DIRICHLET condition under
\* the element's subdomain id ends in a fatal error
C5_DirichletNoOpInSideDispatch ==
    /\ SideDirichletNoOp
    /\ (res.kind = "volume_external_residual" /\ HasDirichlet(WorkOf(res, bc), bc))
          => res.err

C5_Witness ==
    /\ res.kind = "side_external_residual" /\ ~res.err
    /\ HasDirichlet(WorkOf(res, bc), bc)
    /\ Len(res.calls) > 0
    /\ res.f # CallerF(elem)

----------------------------------------------------------------------------
(* Assembly driver, nonlinear_implicit_assembly.h *)

\* the PostAssemblyOperation objects of the user
Hooks == {"hookA", "hookB"}

\* the elements of the mesh, in iteration order, and the global DOFs: element
\* e owns DOFs e and e + 1, so neighbours share one
MeshElems == 1..MaxElems

Dofs == 1..(MaxElems + 1)

dof_indices(e) == {e, e + 1}

\* global solutions the solver asks for
Solutions == {1, 2}

\* _elem_calculations(elem, if_jac, vec, mat): entry d of the element vector
\* and entry (d, d2) of the element matrix
elem_vec(e, x, d) == x * e + d

elem_mat(e, x, d, d2) == e + (IF d = d2 THEN x ELSE 0)

\* R and J as the call starts: zeroed if supplied, <<>> if withheld
ZeroR(supplied) == IF supplied THEN [d \in Dofs |-> 0] ELSE <<>>

ZeroJ(supplied) == IF supplied THEN [d \in Dofs |-> [d2 \in Dofs |-> 0]] ELSE <<>>

\* scatter-add of one element into R and J
AddToR(r, e, x) ==
    [d \in DOMAIN r |-> r[d] + (IF d \in dof_indices(e) THEN elem_vec(e, x, d) ELSE 0)]

AddToJ(j, e, x) ==
    [d \in DOMAIN j |-> [d2 \in DOMAIN j[d] |->
        j[d][d2] + (IF d \in dof_indices(e) /\ d2 \in dof_indices(e)
                    THEN elem_mat(e, x, d, d2) ELSE 0)]]

\* the scatter-adds of one assembly pass: element e adds to each DOF it owns
ScatterAdds == UNION {{<<e, d>> : d \in dof_indices(e)} : e \in MeshElems}

SetEntryInR(r, e, d, x) == [r EXCEPT ![d] = elem_vec(e, x, d)]

\* the atomic accumulation of element e into entry d of R
AddEntryToR(r, e, d, x) ==
    IF r = <<>> THEN r ELSE [r EXCEPT ![d] = r[d] + elem_vec(e, x, d)]

\* the accumulation of row d of the matrix of element e into J
AddRowToJ(j, e, d, x) ==
    IF j = <<>> THEN j
    ELSE [j EXCEPT ![d] = [d2 \in DOMAIN j[d] |->
            j[d][d2] + (IF d2 \in dof_indices(e) THEN elem_mat(e, x, d, d2) ELSE 0)]]

attach_discipline_and_system ==
    /\ pc = "idle"
    /\ ~attached
    /\ attached' = TRUE
    /\ UNCHANGED <<post_assembly, pc, X, todo, R, J, hook_log, registered>>
    /\ UNCHANGED <<elem_vars, build_vars, tf, disp_vars>>
    /\ UNCHANGED sens_vars

\* allowed only while the system is still attached; the solver's buffers of
\* the previous system are dropped
reattach_to_system ==
    /\ pc = "idle"
    /\ attached
    /\ R' = <<>> /\ J' = <<>> /\ hook_log' = <<>>
    /\ UNCHANGED <<attached, post_assembly, pc, X, todo, registered>>
    /\ UNCHANGED <<elem_vars, build_vars, tf, disp_vars>>
    /\ UNCHANGED sens_vars

ClearKeepsHook(hook) == hook

\* the hook pointer after clear_discipline_and_system()
HookAfterClear(hook) == NoHook

clear_discipline_and_system ==
    /\ pc = "idle"
    /\ attached' = FALSE
    /\ post_assembly' = HookAfterClear(post_assembly)
    /\ registered' = <<>>
    /\ UNCHANGED <<pc, X, todo, R, J, hook_log>>
    /\ UNCHANGED <<elem_vars, build_vars, tf, disp_vars>>
    /\ UNCHANGED sens_vars

SetKeepsFirstHook(hook, post) == IF hook = NoHook THEN post ELSE hook

\* the hook pointer after set_post_assembly_operation(post)
HookAfterSet(hook, post) == post

set_post_assembly_operation ==
    /\ pc = "idle"
    /\ attached
    /\ Len(registered) < MaxRegistrations
    /\ \E post \in Hooks :
          /\ post_assembly' = HookAfterSet(post_assembly, post)
          /\ registered' = Append(registered, post)
    /\ UNCHANGED <<attached, pc, X, todo, R, J, hook_log>>
    /\ UNCHANGED <<elem_vars, build_vars, tf, disp_vars>>
    /\ UNCHANGED sens_vars

\* residual_and_jacobian(X, R, J, S), entry: R and J zeroed if supplied
residual_and_jacobian_begin ==
    /\ pc = "idle"
    /\ attached
    /\ \E x \in Solutions, haveR \in BOOLEAN, haveJ \in BOOLEAN :
          /\ X' = x
          /\ R' = ZeroR(haveR)
          /\ J' = ZeroJ(haveJ)
    /\ todo' = ScatterAdds
    /\ hook_log' = <<>>
    /\ pc' = "elements"
    /\ UNCHANGED <<attached, post_assembly, registered>>
    /\ UNCHANGED <<elem_vars, build_vars, tf, disp_vars>>
    /\ UNCHANGED sens_vars

\* residual_and_jacobian, the element loop: one scatter-add of one element,
\* the elements and their entries taken in any order
residual_and_jacobian_element ==
    /\ pc = "elements"
    /\ \E ent \in todo :
          /\ R' = AddEntryToR(R, ent[1], ent[2], X)
          /\ J' = AddRowToJ(J, ent[1], ent[2], X)
          /\ todo' = todo \ {ent}
    /\ UNCHANGED <<attached, post_assembly, pc, X, hook_log, registered>>
    /\ UNCHANGED <<elem_vars, build_vars, tf, disp_vars>>
    /\ UNCHANGED sens_vars

\* if (_post_assembly) _post_assembly->post_assembly(X, R, J, S)
HookCalled(hook) == hook # NoHook

\* residual_and_jacobian, after the loop: the hook, then the return
residual_and_jacobian_end ==
    /\ pc = "elements"
    /\ todo = {}
    /\ hook_log' = IF HookCalled(post_assembly)
                   THEN Append(hook_log, [hook |-> post_assembly, R |-> R, J |-> J])
                   ELSE hook_log
    /\ pc' = "idle"
    /\ UNCHANGED <<attached, post_assembly, X, todo, R, J, registered>>
    /\ UNCHANGED <<elem_vars, build_vars, tf, disp_vars>>
    /\ UNCHANGED sens_vars

InitAssembly ==
    /\ asserts_enabled \in BOOLEAN
    /\ follower_forces = FALSE
    /\ InitElemPart
    /\ tf = NoTransform
    /\ InitDispatchPart
    /\ InitAssemblyPart

NextAssembly ==
    \/ attach_discipline_and_system
    \/ reattach_to_system
    \/ clear_discipline_and_system
    \/ set_post_assembly_operation
    \/ residual_and_jacobian_begin
    \/ residual_and_jacobian_element
    \/ residual_and_jacobian_end

SpecAssembly == InitAssembly /\ [][NextAssembly]_vars

----------------------------------------------------------------------------
(* Claims on the assembly driver *)

\* the step in which residual_and_jacobian invokes a hook
HookInvokedStep == Len(hook_log') > Len(hook_log)

\* C8: while detached no hook is registered, and a hook that
\* residual_and_jacobian invokes was given to set_post_assembly_operation
\* after the last detach
C8_DetachClearsHook ==
    /\ [](~attached => post_assembly = NoHook)
    /\ [][HookInvokedStep =>
            \E k \in 1..Len(registered) :
                registered[k] = hook_log'[Len(hook_log')].hook]_vars

\* detached after a call that invoked a hook
C8_Witness ==
    /\ ~attached /\ pc = "idle"
    /\ Len(hook_log) = 1
    /\ post_assembly = NoHook

RECURSIVE FullR(_, _)
\* the residual with the contributions of elements 1..e
FullR(e, x) == IF e = 0 THEN ZeroR(TRUE) ELSE AddToR(FullR(e - 1, x), e, x)

RECURSIVE FullJ(_, _)
FullJ(e, x) == IF e = 0 THEN ZeroJ(TRUE) ELSE AddToJ(FullJ(e - 1, x), e, x)

\* C9: one hook at most is registered, the one given last; a call of
\* residual_and_jacobian has invoked no hook while it loops over the elements,
\* and as it returns it has invoked the registered hook exactly once, on the
\* R and J that hold the contributions of all elements, or none if no hook is
\* registered
C9_HookOnceAfterAssembly ==
    /\ [](post_assembly = (IF registered = <<>> THEN NoHook
                           ELSE registered[Len(registered)]))
    /\ [](pc = "elements" => hook_log = <<>>)
    /\ [][(pc = "elements" /\ pc' = "idle") =>
            hook_log' =
              IF registered = <<>> THEN <<>>
              ELSE <<[hook |-> registered[Len(registered)],
                      R |-> IF R = <<>> THEN <<>> ELSE FullR(MaxElems, X),
                      J |-> IF J = <<>> THEN <<>> ELSE FullJ(MaxElems, X)]>>]_vars

C9_Witness ==
    /\ pc = "idle"
    /\ Len(registered) = 2 /\ registered[1] # registered[2]
    /\ Len(hook_log) = 1 /\ hook_log[1].hook = registered[2]
    /\ hook_log[1].R = FullR(MaxElems, X)
    /\ hook_log[1].J # <<>>

----------------------------------------------------------------------------
(* Further claims on the pressure routines *)

SurfacePressureCall ==
    \/ res.kind = "surface_pressure_residual_side"
    \/ (res.kind = "surface_pressure_residual" /\ elem.dim < 3)

\* C12: a call of either variant of surface_pressure_residual (the
\* whole-element one on a 1D or 2D element) whose pressure field is 0 at
\* every quadrature point returns with f as it was before the call
C12_ZeroPressureZeroLoad ==
    (SurfacePressureCall /\ ~res.err /\ \A qp \in QPoints : pressure(res.b, qp) = 0)
        => res.f = CallerF(elem)

C12_Witness ==
    /\ res.kind = "surface_pressure_residual" /\ ~res.err
    /\ elem.dim = 2 /\ elem.T # Identity3
    /\ \A qp \in QPoints : pressure(res.b, qp) = 0
    /\ res.f = CallerF(elem)

----------------------------------------------------------------------------
(* Sensitivity assembly, nonlinear_implicit_assembly.h lines 137-151 *)

\* indices into libMesh::ParameterVector& parameters
Params == 1..MaxParams

NoSens == [called |-> FALSE, ret |-> FALSE, err |-> FALSE, rhs |-> <<>>]

\* -dR/dp_i assembled over the elements, when the elements provide it
SensitivityRhs(i, x) == [d \in Dofs |-> 0 - (i * x + d)]

SensitivityAlwaysTrue(available) == TRUE

\* the value sensitivity_assemble returns: false when it is not able to
\* provide the sensitivity, so that the system uses finite differencing
SensitivityReturn(available) == available

\* sensitivity_assemble(parameters, i, sensitivity_rhs)
sensitivity_assemble ==
    /\ pc = "idle"
    /\ attached
    /\ \E i \in Params :
          LET available == i \in analytic
          IN sens' = [sens EXCEPT ![i] =
                        [called |-> TRUE,
                         ret |-> SensitivityReturn(available),
                         err |-> FALSE,
                         rhs |-> IF available THEN SensitivityRhs(i, X)
                                 ELSE [d \in Dofs |-> 0]]]
    /\ UNCHANGED <<attached, post_assembly, pc, X, todo, R, J, hook_log, registered,
                   analytic>>
    /\ UNCHANGED <<elem_vars, build_vars, tf, disp_vars>>

InitSensitivity ==
    /\ asserts_enabled \in BOOLEAN
    /\ follower_forces = FALSE
    /\ InitElemPart
    /\ tf = NoTransform
    /\ InitDispatchPart
    /\ attached = TRUE
    /\ post_assembly = NoHook
    /\ pc = "idle"
    /\ X \in Solutions
    /\ todo = {}
    /\ R = <<>>
    /\ J = <<>>
    /\ hook_log = <<>>
    /\ registered = <<>>
    /\ analytic \in SUBSET Params
    /\ sens = [i \in Params |-> NoSens]

NextSensitivity == sensitivity_assemble

SpecSensitivity == InitSensitivity /\ [][NextSensitivity]_vars

\* C13: a call of sensitivity_assemble for parameter i raises no error and
\* returns true exactly when the analytic derivative for parameter i is
\* available, whatever calls were made for the other parameters
C13_SensitivityFallback ==
    sens # <<>> =>
        \A i \in Params :
            sens[i].called => (~sens[i].err /\ (sens[i].ret <=> i \in analytic))

C13_Witness ==
    /\ sens # <<>>
    /\ \E i \in Params, j \in Params :
          /\ sens[i].called /\ sens[i].ret /\ sens[i].rhs = SensitivityRhs(i, X)
          /\ sens[j].called /\ ~sens[j].ret /\ ~sens[j].err
          /\ i > j

----------------------------------------------------------------------------
(* Claims on the accumulation into R and J *)

RECURSIVE SumOfEntries(_, _, _)
\* the sum of contribution[a] over the elements a in 1..e for which
\* contribution is defined
SumOfEntries(e, d, contribution) ==
    IF e = 0 THEN 0
    ELSE SumOfEntries(e - 1, d, contribution)
           + (IF e \in DOMAIN contribution THEN contribution[e] ELSE 0)

\* the elements whose scatter-add to DOF d has been carried out
AddedTo(d) == {e \in MeshElems : d \in dof_indices(e) /\ <<e, d>> \notin todo}

\* C14: whatever the order and interleaving of the scatter-adds, every entry
\* of R and of J is the sum of the contributions of the elements whose
\* scatter-add to it was carried out, each counted once; when the pass is
\* over these are all the elements that own the DOF
C14_OrderIndependentSum ==
    /\ R # <<>> =>
          \A d \in Dofs :
             R[d] = SumOfEntries(MaxElems, d,
                       [e \in AddedTo(d) |-> elem_vec(e, X, d)])
    /\ J # <<>> =>
          \A d \in Dofs, d2 \in Dofs :
             J[d][d2] = SumOfEntries(MaxElems, d,
                          [e \in {a \in AddedTo(d) : d2 \in dof_indices(a)} |->
                              elem_mat(e, X, d, d2)])
    /\ (pc = "idle" /\ R # <<>>) => R = FullR(MaxElems, X)
    /\ (pc = "idle" /\ J # <<>>) => J = FullJ(MaxElems, X)

\* two elements in the middle of their scatter-adds, the later one first on
\* the DOF they share
C14_Witness ==
    /\ pc = "elements"
    /\ <<1, 1>> \in todo /\ <<1, 2>> \notin todo
    /\ <<2, 2>> \notin todo /\ <<2, 3>> \in todo
    /\ R # <<>> /\ R[2] = elem_vec(1, X, 2) + elem_vec(2, X, 2)
    /\ J # <<>> /\ J[2][2] = elem_mat(1, X, 2, 2) + elem_mat(2, X, 2, 2)

----------------------------------------------------------------------------
(* Claims on the failure paths of the pressure routines *)

WholeElementCall ==
    res.kind \in {"surface_pressure_residual",
                  "small_disturbance_surface_pressure_residual"}

\* C15 as stated: a pressure routine called on an element it applies to
\* (the whole-element variants on a 1D or 2D element), with follower forces
\* inactive or with no Jacobian requested, returns without a fatal error
C15_OtherPathsSucceed ==
    (/\ PressureCall
     /\ WholeElementCall => elem.dim < 3
     /\ ~(follower_forces /\ res.request_jacobian)) => ~res.err

----------------------------------------------------------------------------
(* Inertial residual, lines 105-208 *)

\* the inertia fields of a property card: the same 6 x 6 matrix everywhere,
\* or one that grows along the element
InertiaFields == {"uniform", "varying"}

\* (*mat_inertia)(p, _time, material_mat) at the location of quadrature
\* point q: a diagonal of translational and rotational inertias and one
\* symmetric coupling term
inertia_matrix(field, q) ==
    [r \in 0..5 |-> [c \in 0..5 |->
        (IF field = "varying" THEN q + 1 ELSE 1)
          * (IF r = c THEN r + 1
             ELSE IF (r = 0 /\ c = 4) \/ (r = 4 /\ c = 0) THEN 1
             ELSE 0)]]

\* the quadrature point whose location the consistent-mass loop hands to the
\* inertia field at iteration qp: global_coordinates_location(xyz[0], p)
InertiaPoint(qp) == 0

\* vol = sum of JxW
ElementVolume == SumUpTo([qp \in QPoints |-> JxW(qp)], MaxQP)

LumpedShareWhole(nshp) == ElementVolume

\* vol /= (1.* nshp)
LumpedShare(nshp) == ElementVolume \div nshp

\* the lumped-mass branch: local_jac(i_var*nshp+i, i_var*nshp+i) =
\* vol * material_mat(i_var, i_var), with the inertia taken at xyz[0]
LumpedMass(n, field) ==
    LET material_mat == inertia_matrix(field, 0)
    IN Evaluated([r \in 0..(6 * n - 1) |-> Evaluated([c \in 0..(6 * n - 1) |->
          IF r = c THEN LumpedShare(n) * material_mat[r \div n][r \div n] ELSE 0])])

\* Bmat.left_multiply(mat1_n1n2, material_mat); vec1_n1 = mat1_n1n2 * a
MassTimesAccel(n, qp, material_mat, a) ==
    Evaluated([r \in 0..5 |->
        SumUpTo([k \in 0..(6 * n - 1) |->
                   material_mat[r][k \div n] * phi(k % n, qp) * a[k]], 6 * n)])

\* the consistent-mass loop: local_f += JxW[qp] * B^T (M B a)
ConsistentForce(n, field, a) ==
    Quadrature(n, [qp \in QPoints |->
        MassTimesAccel(n, qp, inertia_matrix(field, InertiaPoint(qp)), a)])

\* the consistent-mass loop: local_jac += JxW[qp] * B^T M B
ConsistentMass(n, field) ==
    Evaluated([r \in 0..(6 * n - 1) |-> Evaluated([c \in 0..(6 * n - 1) |->
        SumUpTo([qp \in QPoints |->
                   JxW(qp) * phi(r % n, qp)
                     * inertia_matrix(field, InertiaPoint(qp))[r \div n][c \div n]
                     * phi(c % n, qp)], MaxQP)])])

\* what reading _local_accel past its end gives in a build without assertions
GarbageVecs(n) == {Zero(6 * n), Ramp(6 * n)}

\* inertial_residual(request_jacobian, f, jac_xddot, jac_xdot, jac) reading a
\* as _local_accel; evals lists the quadrature points the inertia field was
\* evaluated at
inertial_residual(request_jacobian, f, jac_xddot, lumped, field, a) ==
    LET n == elem.n
        local_jac == IF lumped THEN LumpedMass(n, field)
                     ELSE IF request_jacobian THEN ConsistentMass(n, field)
                     ELSE ZeroMat(6 * n)
        local_f == IF lumped THEN MatVec(local_jac, a, 6 * n)
                   ELSE ConsistentForce(n, field, a)
    IN [err |-> FALSE,
        evals |-> IF lumped THEN <<0>> ELSE [k \in 1..MaxQP |-> InertiaPoint(k - 1)],
        a |-> a,
        local_f |-> local_f,
        local_jac |-> local_jac,
        f |-> IF elem.dim < 3
              THEN VecAdd(f, transform_vector_to_global_system(elem, local_f))
              ELSE VecAdd(f, local_f),
        jac |-> IF ~request_jacobian THEN jac_xddot
                ELSE IF elem.dim < 3
                THEN transform_matrix_to_global_system(elem, local_jac)
                ELSE local_jac,
        ret |-> request_jacobian]

InertialResult(request_jacobian, lumped, field, h) ==
    [kind |-> "inertial_residual", request_jacobian |-> request_jacobian,
     lumped |-> lumped, field |-> field, err |-> h.err, evals |-> h.evals,
     a |-> h.a, local_f |-> h.local_f, local_jac |-> h.local_jac,
     f |-> h.f, jac |-> h.jac, ret |-> h.ret, calls |-> <<>>]

InertialFatal(request_jacobian, lumped, field) ==
    [kind |-> "inertial_residual", request_jacobian |-> request_jacobian,
     lumped |-> lumped, field |-> field, err |-> TRUE, evals |-> <<>>,
     a |-> <<>>, local_f |-> <<>>, local_jac |-> <<>>,
     f |-> CallerF(elem), jac |-> <<>>, ret |-> FALSE, calls |-> <<>>]

\* a call of inertial_residual with jac_xddot empty at entry; a _local_accel
\* that is not 6n long stops the call at the size check of the product in a
\* build with assertions, and is read out of bounds in a build without
InertialResidual ==
    /\ res = NoCall
    /\ \E request_jacobian \in BOOLEAN, lumped \in BOOLEAN, field \in InertiaFields,
          ub \in UBOutcomes :
          IF Size(local_accel) = 6 * elem.n
          THEN res' = InertialResult(request_jacobian, lumped, field,
                         inertial_residual(request_jacobian, CallerF(elem), <<>>,
                                           lumped, field, local_accel))
          ELSE IF asserts_enabled \/ ub = "trap"
          THEN res' = InertialFatal(request_jacobian, lumped, field)
          ELSE \E a \in GarbageVecs(elem.n) :
                  res' = InertialResult(request_jacobian, lumped, field,
                            inertial_residual(request_jacobian, CallerF(elem), <<>>,
                                              lumped, field, a))
    /\ UNCHANGED <<elem_vars, build_vars, tf, bc, asm_vars>>

\* the cached local acceleration of an element the driver has set up: never
\* sized by this file, or sized and filled outside it
LocalAccels(n) == {Unsized} \cup PushVecs(n)

InitInertia ==
    /\ asserts_enabled \in BOOLEAN
    /\ follower_forces = FALSE
    /\ elem \in DispatchElems
    /\ sol = Unsized /\ vel = Unsized /\ accel = Unsized /\ base_sol = Unsized
    /\ local_sol = Unsized /\ local_vel = Unsized /\ local_base_sol = Unsized
    /\ local_accel \in LocalAccels(elem.n)
    /\ last = [op |-> "none", err |-> FALSE]
    /\ tf = NoTransform
    /\ InitDispatchPart
    /\ InitAssemblyPart

NextInertia == InertialResidual

SpecInertia == InitInertia /\ [][NextInertia]_vars

----------------------------------------------------------------------------
(* Claims on the inertial residual *)

InertialCall == res.kind = "inertial_residual" /\ ~res.err

\* C16 as stated: in the consistent-mass path the inertia field is evaluated
\* at quadrature point qp in iteration qp, and the local force is the sum
\* over qp of JxW[qp] * B_qp^T * M(x_qp) * B_qp * a_local
C16_InertiaAtEachPoint ==
    (InertialCall /\ ~res.lumped) =>
        /\ res.evals = [k \in 1..MaxQP |-> k - 1]
        /\ res.local_f =
             Quadrature(elem.n, [qp \in QPoints |->
                 MassTimesAccel(elem.n, qp, inertia_matrix(res.field, qp), res.a)])

\* C17: in the lumped-mass path the inertia field is evaluated once, the local
\* mass matrix is diagonal with entry (c*n + i, c*n + i) =
\* (sum of JxW / n) * M(c, c), the diagonal entries of a component sum to
\* element volume * M(c, c), and the local force is that matrix times the
\* local acceleration
C17_LumpedMass ==
    (InertialCall /\ res.lumped) =>
        LET n == elem.n
            M == inertia_matrix(res.field, res.evals[1])
            vol == SumUpTo([qp \in QPoints |-> JxW(qp)], MaxQP)
        IN /\ Len(res.evals) = 1
           /\ \A r \in 0..(6 * n - 1), c \in 0..(6 * n - 1) :
                 res.local_jac[r][c] =
                    IF r = c THEN (vol \div n) * M[r \div n][r \div n] ELSE 0
           /\ \A c \in 0..5 :
                 SumUpTo([i \in 0..(n - 1) |-> res.local_jac[c * n + i][c * n + i]], n)
                    = vol * M[c][c]
           /\ res.local_f = MatVec(res.local_jac, res.a, 6 * n)

C17_Witness ==
    /\ InertialCall /\ res.lumped /\ res.request_jacobian
    /\ asserts_enabled
    /\ elem.dim = 2 /\ res.field = "varying"
    /\ res.a = local_accel /\ res.a = Ramp(6 * elem.n)
    /\ res.local_f # Zero(6 * elem.n)
    /\ res.jac # <<>> /\ res.jac # res.local_jac

----------------------------------------------------------------------------
(* Claims on the block transformation *)

\* the matrix B of the claim: T(j,k) at (j*n + i, k*n + i) and at
\* ((j+3)*n + i, (k+3)*n + i) for every node i, 0 elsewhere
ClaimedBlock(T, n) ==
    [r \in 0..(6 * n - 1) |-> [c \in 0..(6 * n - 1) |->
        LET j == r \div n
            k == c \div n
        IN IF r % n # c % n THEN 0
           ELSE IF j < 3 /\ k < 3 THEN T[j][k]
           ELSE IF j >= 3 /\ k >= 3 THEN T[j - 3][k - 3]
           ELSE 0]]

\* C18: the three routines use the block matrix B of the claim: toLocal(v) =
\* B^T v, toGlobal(v) = B v, toGlobal(M) = B M B^T, and for an orthonormal T
\* toGlobal(M) * toGlobal(v) = toGlobal(M * v)
C18_BlockTransform ==
    (tf.op = "matrix_to_global" /\ ~tf.err) =>
        LET N == 6 * elem.n
            B == ClaimedBlock(elem.T, elem.n)
        IN /\ tf.lv = MatVec(Transpose(B, N), tf.v, N)
           /\ tf.gv = MatVec(B, tf.v, N)
           /\ tf.gM = MatMul(MatMul(B, tf.M, N), Transpose(B, N), N)
           /\ IsOrthonormal(elem.T) => MatVec(tf.gM, tf.gv, N) = tf.gMv

C18_Witness ==
    /\ tf.op = "matrix_to_global" /\ ~tf.err
    /\ elem.dim = 1 /\ elem.T # Identity3 /\ IsOrthonormal(elem.T)
    /\ tf.M[1][0] # 0
    /\ tf.gM # tf.M
    /\ tf.gv # tf.v
    /\ MatVec(tf.gM, tf.gv, 6 * elem.n) = tf.gMv

----------------------------------------------------------------------------
(* Claims on the sensitivity flag of the setters *)

\* C19: a call of set_solution, set_velocity or set_base_solution with
\* if_sens = true ends in a fatal error and leaves every global vector and
\* every cached local copy of the element as it was
C19_SensSetterFatal ==
    [][(last'.op \in {"set_solution", "set_velocity", "set_base_solution"}
          /\ last'.if_sens) =>
        /\ last'.err
        /\ <<sol, vel, accel, base_sol>>' = <<sol, vel, accel, base_sol>>
        /\ <<local_sol, local_vel, local_accel, local_base_sol>>'
             = <<local_sol, local_vel, local_accel, local_base_sol>>
        /\ elem' = elem]_vars

C19_Witness ==
    /\ last.op = "set_velocity" /\ last.if_sens /\ last.err
    /\ elem.built /\ elem.dim = 2
    /\ vel = Ramp(6 * elem.n)
    /\ local_vel = transform_vector_to_local_system(elem, vel)
    /\ local_vel # vel

----------------------------------------------------------------------------
(* Claims on the shape-function vector of the pressure routines *)

\* length of phi_vec as the quadrature loop of a pressure routine starts:
\* three of them declare RealVectorX phi_vec(n_phi)
PhiVecSize(routine, n_phi) ==
    IF routine = "small_disturbance_surface_pressure_residual"
    THEN phi_vec_size(n_phi)
    ELSE n_phi

\* C20 as stated: in a call of any of the four pressure routines on an
\* element with a quadrature point, phi_vec has length n_phi before the
\* first write phi_vec(i_nd), and the call does not fail on that write
C20_PhiVecInBounds ==
    (PressureCall /\ MaxQP > 0) =>
        /\ PhiVecSize(res.kind, elem.n) = elem.n
        /\ (/\ res.kind = "small_disturbance_surface_pressure_residual"
            /\ elem.dim < 3
            /\ ~follower_forces) => ~res.err

====
